---- MODULE Spec2Model ----
(***************************************************************************)
(* Real-time fan-out layer of the Smart Device Management Platform:        *)
(* WebSocketService (src/src/controllers/deviceController.js, 325-652).    *)
(* The service keeps two maps (connectedUsers, userSockets) and relies on  *)
(* socket.io rooms for the organization / user / device indices.  Room     *)
(* names are template strings and are modelled as strings, built by        *)
(* concatenation exactly as the code builds them.                          *)
(*                                                                         *)
(* Further parts, each with its own specification over its own variables:  *)
(*   SpecPayload      broadcast payload construction (object spread)       *)
(*   SpecAuth         AuthService tokens, logout and the token blacklist   *)
(*   SpecDeviceRead   GET /devices/:id behind the Redis cache middleware   *)
(*   SpecCleanup      the deactivateInactiveDevices job and heartbeats     *)
(*   SpecRegistry     connects, disconnects, disconnectUser and the stats  *)
(*   SpecSession      connections whose token or user is revoked later     *)
(*   SpecClient       device:status messages of the clients                *)
(*   SpecDevice       the device endpoints: store, log, answer, broadcast  *)
(*   SpecExport       export jobs, their processing run, cancel, download  *)
(***************************************************************************)
EXTENDS Integers, Sequences, FiniteSets, TLC

(* ---------------------------------------------------------------- bounds *)
\* number of broadcast calls explored
MaxPublish == 2
\* number of subscribe:devices requests explored
MaxSubscribe == 1
\* the capacity the specification asks of a per-connection outbound buffer
QueueCapacity == 2
\* number of unsubscribe requests explored
MaxUnsubscribe == 1
\* seconds of clock time explored
MaxTime == 2
\* hours of clock time explored
MaxHour == 3
\* ticks of the clock of the device endpoints explored
MaxClock == 1
\* requests to the device endpoints explored
MaxRequests == 2

(* ------------------------------------------------------- input universes *)
\* socket.id values handed out by socket.io (unique per process lifetime)
SocketOrder == <<"s1", "s2">>
SocketIds == {SocketOrder[i] : i \in DOMAIN SocketOrder}

\* The users collection as the handshake reads it: User.findById(...).
\* "mallory" is a deactivated account; no record exists for "ghost".
UserDb ==
  [u \in {"alice", "bob", "carol", "mallory"} |->
     CASE u = "alice"   -> [organization |-> "TechCorp",          role |-> "user",  isActive |-> TRUE]
       [] u = "bob"     -> [organization |-> "InnovateLab",       role |-> "user",  isActive |-> TRUE]
       [] u = "carol"   -> [organization |-> "North_InnovateLab", role |-> "admin", isActive |-> TRUE]
       [] u = "mallory" -> [organization |-> "TechCorp",          role |-> "user",  isActive |-> FALSE]]

Organizations == {UserDb[u].organization : u \in DOMAIN UserDb}

\* Bearer credentials a client may present.  raw = "" is a handshake with
\* no token; verifies is the outcome of jwt.verify on the raw token.
Tokens ==
  { [raw |-> "",                  verifies |-> FALSE, userId |-> "none"],
    [raw |-> "tok_alice",         verifies |-> TRUE,  userId |-> "alice"],
    [raw |-> "tok_alice_revoked", verifies |-> TRUE,  userId |-> "alice"],
    [raw |-> "tok_bob",           verifies |-> TRUE,  userId |-> "bob"],
    [raw |-> "tok_carol",         verifies |-> TRUE,  userId |-> "carol"],
    [raw |-> "tok_forged",        verifies |-> FALSE, userId |-> "alice"],
    [raw |-> "tok_ghost",         verifies |-> TRUE,  userId |-> "ghost"],
    [raw |-> "tok_mallory",       verifies |-> TRUE,  userId |-> "mallory"] }

\* The blacklistedtokens collection: BlacklistedToken.findOne({ token }).
BlacklistedTokens == {"tok_alice_revoked"}

\* The devices collection: deviceId -> organization of the device.
DeviceDb ==
  [d \in {"SENSOR_001", "CAM_7"} |->
     IF d = "SENSOR_001" THEN "TechCorp" ELSE "North_InnovateLab"]

\* deviceIds arrays a client may send in a subscribe:devices message; the
\* handler accepts any string.
SubscribeRequests == {{"SENSOR_001"}, {"CAM_7", "CAM_7_North"}}

OrgEvents == {"devices:bulk_updated"}

\* event names a caller of broadcastToUser may pass
UserEvents == {"export:completed"}

(* ----------------------------------------------------------------- state *)
VARIABLES
  io,             \* this.io # null
  connectedUsers, \* Map userId -> [socketIds]
  userSockets,    \* Map socketId -> {userId, organization, role}
  conn,           \* socket.io connection state of each socket id
  socketUser,     \* socket.user (set by the handshake middleware)
  socketToken,    \* socket.token
  rooms,          \* socket.io adapter: rooms each socket has joined
  outbound,       \* messages emitted to each socket and not yet written out
  published,      \* broadcast calls made so far
  nsub,           \* subscribe:devices packets received so far
  lastBroadcast,  \* event, device and organization of the latest broadcast call
  nunsub,         \* unsubscribe requests received so far
  call,           \* a broadcast call: event kind, device id and the data given
  message,        \* the event and payload that call emits
  now,            \* Math.floor(Date.now() / 1000), the iat of a token signed now
  refreshTokens,  \* user.refreshTokens of every user
  blacklist,      \* the blacklistedtokens collection
  issued,         \* the logins and refreshes that handed tokens to a client
  rotated,        \* refresh tokens a refresh-token request succeeded with
  loggedOut,      \* access tokens a logout answered 'Logout successful' to
  loggedOutAll,   \* access tokens a logout-all request was made with
  cache,          \* Redis: cache key -> cached response body
  response,       \* the latest answer to GET /devices/:id
  deviceRows,     \* the devices table: id -> status, last_active_at
  hour,           \* Date.now(), in hours
  job,            \* where a run of deactivateInactiveDevices stands
  jobResult,      \* what the latest run returned
  devices,        \* the devices collection: deviceId -> document
  clock,          \* new Date(), in ticks
  nreq,           \* requests to the device endpoints handled so far
  reply,          \* the answer to the latest of them
  emitted,        \* the broadcast the controller made for it
  deviceLog,      \* the DeviceLog document the service wrote for it
  revoked,        \* tokens blacklisted since the server started -> createdAt
  deactivated,    \* users whose isActive was set to false since then
  exportJobs,     \* the exportjobs collection and the run of processExportJob
  download        \* the answer to the latest download request

\* the state of the WebSocketService and of socket.io
wsVars == <<io, connectedUsers, userSockets, conn, socketUser, socketToken,
            rooms, outbound, published, nsub, lastBroadcast>>

\* what the actions of the WebSocketService above leave alone
subVars == <<nunsub>>

payloadVars == <<call, message>>

authVars == <<now, refreshTokens, blacklist, issued, rotated, loggedOut, loggedOutAll>>

cacheVars == <<cache, response>>

jobVars == <<deviceRows, hour, job, jobResult>>

deviceVars == <<devices, clock, nreq, reply, emitted, deviceLog>>

\* the state behind the device endpoints, of the credentials in use and of
\* the export jobs
sessionVars == <<revoked, deactivated>>

exportVars == <<exportJobs, download>>

restVars == <<deviceVars, sessionVars, exportVars>>

otherVars == <<subVars, payloadVars, authVars, cacheVars, jobVars, restVars>>

vars == <<wsVars, otherVars>>

NoBroadcast == [name |-> "none", deviceId |-> "", organization |-> "", userId |-> ""]

NoToken == [raw |-> "", verifies |-> FALSE, userId |-> "none"]

\* new Date() at the time of the broadcast
ServerTime == "server-time"

\* keys and values of the data a caller hands to a broadcast method; the
\* heartbeat body is passed on as received, with whatever keys it has
PayloadKeys == {"battery", "deviceId", "status", "timestamp"}

PayloadValues == {"v1", "v2"}

PayloadData ==
  UNION {[keys -> PayloadValues] : keys \in SUBSET PayloadKeys}

\* what logDeviceEvent passes to broadcastDeviceError: message is validated
\* not empty, and only the severities error and critical are broadcast
ErrorData ==
  [message : {"overheated"}, severity : {"error", "critical"}, data : PayloadData]

Calls ==
  [kind : {"device:heartbeat", "device:status_change"},
   deviceId : DOMAIN DeviceDb, data : PayloadData]
    \cup [kind : {"device:error"}, deviceId : DOMAIN DeviceDb, data : ErrorData]

NoCall == [kind |-> "none", deviceId |-> "", data |-> << >>]

NoMessage == [event |-> "none", payload |-> << >>]

PayloadInit == call = NoCall /\ message = NoMessage

(* ------------------------------------------------------------ room names *)
OrgRoom(organization) == "org_" \o organization

UserRoom(userId) == "user_" \o userId

DeviceRoom(deviceId, organization) == "device_" \o deviceId \o "_" \o organization

(* ------------------------------------------------------ socket.io helpers *)
\* io.to(room): the sockets that are in the room
InRoom(rms, room) == {s \in SocketIds : room \in rms[s]}

\* an emit that stalls when a target still has messages buffered
Emit_Blocking(out, targets, msg) ==
  IF \E s \in targets : out[s] # << >>
  THEN out
  ELSE [s \in SocketIds |-> IF s \in targets THEN Append(out[s], msg) ELSE out[s]]

\* an emit that puts the message ahead of what is already buffered
Emit_Prepend(out, targets, msg) ==
  [s \in SocketIds |-> IF s \in targets THEN <<msg>> \o out[s] ELSE out[s]]

\* io.to(room).emit(event, payload): one message for every socket of the room
Emit(out, targets, msg) ==
  [s \in SocketIds |-> IF s \in targets THEN Append(out[s], msg) ELSE out[s]]

\* A message is represented by the number of the broadcast call that emitted
\* it (its payload is opaque), and by 0 when it is a reply the service sends
\* to one socket ('connected', 'subscription:success').
Reply == 0

\* number of copies of broadcast number id among the messages of s
RECURSIVE CountIn(_, _)
CountIn(seq, id) ==
  IF seq = <<>> THEN 0
  ELSE (IF Head(seq) = id THEN 1 ELSE 0) + CountIn(Tail(seq), id)

Copies(out, s, id) == CountIn(out[s], id)

(* ------------------------------------------------------------------ Init *)
WsInit ==
  /\ io = FALSE
  /\ connectedUsers = << >>
  /\ userSockets = << >>
  /\ conn = [s \in SocketIds |-> "idle"]
  /\ socketUser = [s \in SocketIds |-> "none"]
  /\ socketToken = [s \in SocketIds |-> NoToken]
  /\ rooms = [s \in SocketIds |-> {}]
  /\ outbound = [s \in SocketIds |-> << >>]
  /\ published = 0
  /\ nsub = 0
  /\ lastBroadcast = NoBroadcast

SubscriptionInit == nunsub = 0

(* ------------------------------------------------------------ initialize *)
Initialize ==
  /\ ~io
  /\ io' = TRUE
  /\ UNCHANGED <<connectedUsers, userSockets, conn, socketUser, socketToken,
                 rooms, outbound, published, nsub, lastBroadcast>>
  /\ UNCHANGED otherVars

(* --------------------------------------------- authentication middleware *)
\* the middleware without its BlacklistedToken.findOne check
Authenticate_NoBlacklist(token) ==
  IF token.raw = "" THEN "Authentication token required"
  ELSE IF ~token.verifies THEN "Authentication failed"
  ELSE IF token.userId \notin DOMAIN UserDb \/ ~UserDb[token.userId].isActive
       THEN "User not found or inactive"
  ELSE "ok"

\* io.use(async (socket, next) => ...): "ok" stands for next() without an
\* error; jwt.verify throws on a bad token and the catch answers
\* 'Authentication failed'.
Authenticate(token) ==
  IF token.raw = "" THEN "Authentication token required"
  ELSE IF token.raw \in BlacklistedTokens THEN "Token has been revoked"
  ELSE IF ~token.verifies THEN "Authentication failed"
  ELSE IF token.userId \notin DOMAIN UserDb \/ ~UserDb[token.userId].isActive
       THEN "User not found or inactive"
  ELSE "ok"

(* ------------------------------------------------------ handleConnection *)
\* Map.set(key, value)
MapSet(m, k, v) == [x \in DOMAIN m \cup {k} |-> IF x = k THEN v ELSE m[x]]

\* Map.delete(key)
MapDelete(m, k) == [x \in DOMAIN m \ {k} |-> m[x]]

\* handleConnection that starts the user's list anew at every connection
handleConnection_ResetList(cu, us, sid, userId) ==
  LET user == UserDb[userId]
  IN [connectedUsers |-> MapSet(cu, userId, <<sid>>),
      userSockets    |-> MapSet(us, sid, [userId       |-> userId,
                                          organization |-> user.organization,
                                          role         |-> user.role])]

\* the two maps after handleConnection(socket)
handleConnection(cu, us, sid, userId) ==
  LET user == UserDb[userId]
      cu0  == IF userId \in DOMAIN cu THEN cu ELSE MapSet(cu, userId, << >>)
  IN [connectedUsers |-> [cu0 EXCEPT ![userId] = Append(@, sid)],
      userSockets    |-> MapSet(us, sid, [userId       |-> userId,
                                          organization |-> user.organization,
                                          role         |-> user.role])]

\* rooms joined by handleConnection
ConnectionRooms(userId) == {OrgRoom(UserDb[userId].organization), UserRoom(userId)}

(* --------------------------------------------------- handleDisconnection *)
\* Array.prototype.indexOf, 0-based, -1 when absent
RECURSIVE IndexOf(_, _)
IndexOf(seq, x) ==
  IF seq = << >> THEN -1
  ELSE IF Head(seq) = x THEN 0
  ELSE LET r == IndexOf(Tail(seq), x) IN IF r = -1 THEN -1 ELSE r + 1

\* Array.prototype.splice(start, 1); a negative start counts from the end
Splice1(seq, start) ==
  LET n == Len(seq)
      b == IF start < 0 THEN (IF n + start < 0 THEN 0 ELSE n + start)
           ELSE (IF start > n THEN n ELSE start)
  IN [i \in 1..(IF b < n THEN n - 1 ELSE n) |-> IF i <= b THEN seq[i] ELSE seq[i + 1]]

\* handleDisconnection that drops the user's entry without looking at the
\* sockets the user has left
handleDisconnection_DeleteUser(cu, us, sid) ==
  IF sid \notin DOMAIN us THEN [connectedUsers |-> cu, userSockets |-> us]
  ELSE [connectedUsers |-> MapDelete(cu, us[sid].userId),
        userSockets    |-> MapDelete(us, sid)]

\* handleDisconnection without this.userSockets.delete(socket.id)
handleDisconnection_KeepEntry(cu, us, sid) ==
  IF sid \notin DOMAIN us THEN [connectedUsers |-> cu, userSockets |-> us]
  ELSE
    LET userId  == us[sid].userId
        index   == IndexOf(cu[userId], sid)
        sockets == IF index > -1 THEN Splice1(cu[userId], index) ELSE cu[userId]
        cu1     == IF userId \notin DOMAIN cu THEN cu
                   ELSE IF Len(sockets) = 0 THEN MapDelete(cu, userId)
                   ELSE [cu EXCEPT ![userId] = sockets]
    IN [connectedUsers |-> cu1, userSockets |-> us]

\* the two maps after handleDisconnection(socket, reason)
handleDisconnection(cu, us, sid) ==
  IF sid \notin DOMAIN us THEN [connectedUsers |-> cu, userSockets |-> us]
  ELSE
    LET userId  == us[sid].userId
        index   == IndexOf(cu[userId], sid)
        sockets == IF index > -1 THEN Splice1(cu[userId], index) ELSE cu[userId]
        cu1     == IF userId \notin DOMAIN cu THEN cu
                   ELSE IF Len(sockets) = 0 THEN MapDelete(cu, userId)
                   ELSE [cu EXCEPT ![userId] = sockets]
    IN [connectedUsers |-> cu1, userSockets |-> MapDelete(us, sid)]

\* getConnectedUsersCount(): this.connectedUsers.size
getConnectedUsersCount(cu) == Cardinality(DOMAIN cu)

\* isUserConnected(userId): this.connectedUsers.has(userId.toString())
isUserConnected(cu, userId) == userId \in DOMAIN cu

\* getConnectionStats(): organizationBreakdown has a key for every
\* organization that has an entry in userSockets
getConnectionStats(cu, us) ==
  [totalConnections      |-> Cardinality(DOMAIN us),
   uniqueUsers           |-> Cardinality(DOMAIN cu),
   organizationBreakdown |->
     [o \in {us[s].organization : s \in DOMAIN us} |->
        Cardinality({s \in DOMAIN us : us[s].organization = o})]]

\* getOrganizationUsersCount(organization)
getOrganizationUsersCount(us, organization) ==
  Cardinality({s \in DOMAIN us : us[s].organization = organization})

(* ---------------------------------------------- handleDeviceSubscription *)
\* rooms of the socket after handleDeviceSubscription(socket, {deviceIds})
handleDeviceSubscription(joined, deviceIds, organization) ==
  joined \cup {DeviceRoom(d, organization) : d \in deviceIds}

\* the subscription handler run without regard to the state of the socket
onSubscribeDevices_Always(connState, joined, deviceIds, organization) ==
  joined \cup {DeviceRoom(d, organization) : d \in deviceIds}

\* socket.on('subscribe:devices', ...): the handler is bound to the socket,
\* and socket.io raises events only on a socket that is connected
onSubscribeDevices(connState, joined, deviceIds, organization) ==
  IF connState = "connected"
  THEN handleDeviceSubscription(joined, deviceIds, organization)
  ELSE joined

(* ------------------------------------------------------------ broadcasts *)
\* broadcastDeviceHeartbeat without its emit to the organization room
broadcastDeviceHeartbeat_DeviceRoomOnly(out, rms, deviceId, organization, id) ==
  Emit(out, InRoom(rms, DeviceRoom(deviceId, organization)), id)

broadcastDeviceHeartbeat(out, rms, deviceId, organization, id) ==
  LET first == Emit(out, InRoom(rms, OrgRoom(organization)), id)
  IN Emit(first, InRoom(rms, DeviceRoom(deviceId, organization)), id)

broadcastDeviceStatusChange(out, rms, deviceId, organization, id) ==
  LET first == Emit(out, InRoom(rms, OrgRoom(organization)), id)
  IN Emit(first, InRoom(rms, DeviceRoom(deviceId, organization)), id)

broadcastDeviceError(out, rms, deviceId, organization, id) ==
  LET first == Emit(out, InRoom(rms, OrgRoom(organization)), id)
  IN Emit(first, InRoom(rms, DeviceRoom(deviceId, organization)), id)

\* broadcastToOrganization that leaves out the sockets whose token has been
\* blacklisted since their handshake
broadcastToOrganization_Revalidating(out, rms, organization, id) ==
  Emit(out, {s \in InRoom(rms, OrgRoom(organization)) :
               socketToken[s].raw \notin DOMAIN revoked}, id)

broadcastToOrganization(out, rms, organization, id) ==
  Emit(out, InRoom(rms, OrgRoom(organization)), id)

\* io.emit(...): every socket of the namespace, that is every socket that is
\* connected (a connected socket is in the rooms handleConnection joined)
AllSockets(rms) == {s \in SocketIds : rms[s] # {}}

\* broadcastSystemNotification(message, severity, targetOrganization = null);
\* "" stands for a target that is null, undefined or empty (all falsy)
broadcastSystemNotification(out, rms, targetOrganization, id) ==
  IF targetOrganization # ""
  THEN Emit(out, InRoom(rms, OrgRoom(targetOrganization)), id)
  ELSE Emit(out, AllSockets(rms), id)

\* broadcastToUser that emits to every socket
broadcastToUser_Everyone(out, rms, userId, id) ==
  Emit(out, AllSockets(rms), id)

\* io.to(`user_${userId}`).emit(event, data)
broadcastToUser(out, rms, userId, id) ==
  Emit(out, InRoom(rms, UserRoom(userId)), id)

(* --------------------------------------------------------------- actions *)
\* the id socket.io gives the next socket: one that was never used
FreshSocket ==
  LET used == Cardinality({s \in SocketIds : conn[s] # "idle"})
  IN IF used < Len(SocketOrder) THEN SocketOrder[used + 1] ELSE "none"

\* A handshake that passes the middleware: io.on('connection') runs
\* handleConnection(socket).
HandshakeAccepted(s, token) ==
  /\ io
  /\ s = FreshSocket
  /\ Authenticate(token) = "ok"
  /\ LET after == handleConnection(connectedUsers, userSockets, s, token.userId)
     IN /\ connectedUsers' = after.connectedUsers
        /\ userSockets' = after.userSockets
  /\ conn' = [conn EXCEPT ![s] = "connected"]
  /\ socketUser' = [socketUser EXCEPT ![s] = token.userId]
  /\ socketToken' = [socketToken EXCEPT ![s] = token]
  /\ rooms' = [rooms EXCEPT ![s] = ConnectionRooms(token.userId)]
  /\ outbound' = [outbound EXCEPT ![s] = Append(@, Reply)]
  /\ UNCHANGED <<io, published, nsub, lastBroadcast>>
  /\ UNCHANGED otherVars

\* A handshake the middleware answers with next(new Error(...)): socket.io
\* refuses the connection and no 'connection' event is raised.
HandshakeRejected(s, token) ==
  /\ io
  /\ s = FreshSocket
  /\ Authenticate(token) # "ok"
  /\ UNCHANGED <<io, connectedUsers, userSockets, conn, socketUser, socketToken,
                 rooms, outbound, published, nsub, lastBroadcast>>
  /\ UNCHANGED otherVars

\* The socket closes: socket.io takes it out of every room, drops what is
\* still buffered for it and raises 'disconnect', whose handler is
\* handleDisconnection(socket, reason); the socket object is then released.
Disconnect(s) ==
  /\ conn[s] = "connected"
  /\ LET after == handleDisconnection(connectedUsers, userSockets, s)
     IN /\ connectedUsers' = after.connectedUsers
        /\ userSockets' = after.userSockets
  /\ conn' = [conn EXCEPT ![s] = "closed"]
  /\ rooms' = [rooms EXCEPT ![s] = {}]
  /\ outbound' = [outbound EXCEPT ![s] = << >>]
  /\ socketUser' = [socketUser EXCEPT ![s] = "none"]
  /\ socketToken' = [socketToken EXCEPT ![s] = NoToken]
  /\ UNCHANGED <<io, published, nsub, lastBroadcast>>
  /\ UNCHANGED otherVars

\* handleDisconnection called again for a socket that is already gone, or
\* for a socket id that never entered the maps.
DisconnectAgain(s) ==
  /\ conn[s] # "connected"
  /\ LET after == handleDisconnection(connectedUsers, userSockets, s)
     IN /\ connectedUsers' = after.connectedUsers
        /\ userSockets' = after.userSockets
  /\ UNCHANGED <<io, conn, socketUser, socketToken, rooms, outbound, published, nsub, lastBroadcast>>
  /\ UNCHANGED otherVars

\* socket.user.organization; a released socket has no user
SocketOrganization(s) ==
  IF socketUser[s] \in DOMAIN UserDb THEN UserDb[socketUser[s]].organization ELSE ""

\* socket.on('subscribe:devices', data => handleDeviceSubscription(socket, data))
SubscribeDevices(s, deviceIds) ==
  /\ nsub < MaxSubscribe
  /\ conn[s] = "connected"
  /\ rooms' = [rooms EXCEPT ![s] =
                 onSubscribeDevices(conn[s], @, deviceIds, SocketOrganization(s))]
  /\ outbound' = [outbound EXCEPT ![s] = Append(@, Reply)]
  /\ nsub' = nsub + 1
  /\ UNCHANGED <<io, connectedUsers, userSockets, conn, socketUser, socketToken,
                 published, lastBroadcast>>
  /\ UNCHANGED otherVars

\* A subscribe:devices packet that reaches the server after the socket has
\* closed: socket.io dispatches no event to a disconnected socket, so the
\* handler does not run.
SubscribeAfterClose(s, deviceIds) ==
  /\ nsub < MaxSubscribe
  /\ conn[s] = "closed"
  /\ rooms' = [rooms EXCEPT ![s] =
                 onSubscribeDevices(conn[s], @, deviceIds, SocketOrganization(s))]
  /\ nsub' = nsub + 1
  /\ UNCHANGED <<io, connectedUsers, userSockets, conn, socketUser, socketToken,
                 outbound, published, lastBroadcast>>
  /\ UNCHANGED otherVars

\* No handler is registered for an unsubscribe event: handleConnection binds
\* subscribe:devices, device:status, heartbeat, disconnect and error only, and
\* socket.io drops an event that has no listener.
onUnsubscribeDevices(joined, deviceIds, organization) == joined

\* a client sends an unsubscribe request for deviceIds on its socket
UnsubscribeDevices(s, deviceIds) ==
  /\ nunsub < MaxUnsubscribe
  /\ conn[s] = "connected"
  /\ rooms' = [rooms EXCEPT ![s] =
                 onUnsubscribeDevices(@, deviceIds, SocketOrganization(s))]
  /\ nunsub' = nunsub + 1
  /\ UNCHANGED <<io, connectedUsers, userSockets, conn, socketUser, socketToken,
                 outbound, published, nsub, lastBroadcast, payloadVars, authVars,
                 cacheVars, jobVars, restVars>>

\* the connections userSockets lists for an organization
Registered(us, organization) == {s \in DOMAIN us : us[s].organization = organization}

\* what every broadcast call shares: nothing happens while this.io is null
Publish(name, deviceId, organization, userId, newOut) ==
  /\ published < MaxPublish
  /\ IF io
     THEN /\ outbound' = newOut
          /\ published' = published + 1
          /\ lastBroadcast' = [name |-> name, deviceId |-> deviceId,
                               organization |-> organization, userId |-> userId]
     ELSE UNCHANGED <<outbound, published, lastBroadcast>>
  /\ UNCHANGED <<io, connectedUsers, userSockets, conn, socketUser, socketToken,
                 rooms, nsub>>
  /\ UNCHANGED otherVars

\* deviceController.deviceHeartbeat -> broadcastDeviceHeartbeat
BroadcastDeviceHeartbeat(d) ==
  Publish("device:heartbeat", d, DeviceDb[d], "",
          broadcastDeviceHeartbeat(outbound, rooms, d, DeviceDb[d], published + 1))

\* deviceController.updateDeviceStatus -> broadcastDeviceStatusChange
BroadcastDeviceStatusChange(d) ==
  Publish("device:status_change", d, DeviceDb[d], "",
          broadcastDeviceStatusChange(outbound, rooms, d, DeviceDb[d], published + 1))

\* deviceController.logDeviceEvent -> broadcastDeviceError
BroadcastDeviceError(d) ==
  Publish("device:error", d, DeviceDb[d], "",
          broadcastDeviceError(outbound, rooms, d, DeviceDb[d], published + 1))

\* deviceController.createDevice / bulkUpdateDevices -> broadcastToOrganization
BroadcastToOrganization(organization, event) ==
  Publish(event, "", organization, "",
          broadcastToOrganization(outbound, rooms, organization, published + 1))

\* socket.on('device:status', data => handleDeviceStatusUpdate(socket, data))
HandleDeviceStatusUpdate(s) ==
  /\ conn[s] = "connected"
  /\ Publish("device:status_update", "", SocketOrganization(s), "",
             broadcastToOrganization(outbound, rooms, SocketOrganization(s), published + 1))

\* a caller of broadcastSystemNotification, with or without a target
BroadcastSystemNotification(targetOrganization) ==
  Publish("system:notification", "", targetOrganization, "",
          broadcastSystemNotification(outbound, rooms, targetOrganization, published + 1))

\* a caller of broadcastToUser
BroadcastToUser(userId, event) ==
  Publish(event, "", "", userId,
          broadcastToUser(outbound, rooms, userId, published + 1))

\* the transport of s becomes writable and the buffered packets are flushed
Drain(s) ==
  /\ conn[s] = "connected"
  /\ outbound[s] # << >>
  /\ outbound' = [outbound EXCEPT ![s] = << >>]
  /\ UNCHANGED <<io, connectedUsers, userSockets, conn, socketUser, socketToken,
                 rooms, published, nsub, lastBroadcast>>
  /\ UNCHANGED otherVars

(* ------------------------------------------------ device:status messages *)
\* data of a device:status message: the handler takes deviceId and status as
\* the client wrote them, without looking them up
StatusMessages ==
  [deviceId : {"SENSOR_001", "CAM_7", "CAM_7_North"}, status : {"online", "bogus"}]

\* handleDeviceStatusUpdate that addresses the organization owning the device
\* the message names
handleDeviceStatusUpdate_DeviceOrganization(out, rms, organization, data, id) ==
  broadcastToOrganization(
    out, rms,
    IF data.deviceId \in DOMAIN DeviceDb THEN DeviceDb[data.deviceId] ELSE organization,
    id)

\* handleDeviceStatusUpdate(socket, data), organization being
\* socket.user.organization: the buffers after it
handleDeviceStatusUpdate(out, rms, organization, data, id) ==
  broadcastToOrganization(out, rms, organization, id)

\* socket.on('device:status', data => handleDeviceStatusUpdate(socket, data))
ClientDeviceStatus(s, data) ==
  /\ conn[s] = "connected"
  /\ Publish("device:status_update", data.deviceId, SocketOrganization(s), "",
             handleDeviceStatusUpdate(outbound, rooms, SocketOrganization(s), data,
                                      published + 1))

(* -------------------------------------------------------- disconnectUser *)
\* socketIds.forEach(socketId => { ... socket.disconnect(true) }) from index k
\* on.  forEach fixes the number of indices it visits (len) when it starts and
\* skips an index the array no longer has; socketIds is the array stored in
\* connectedUsers, which handleDisconnection, run by every disconnect before
\* it returns, splices.  arr is that array, closed the sockets disconnected.
RECURSIVE disconnectUserFrom(_, _, _, _, _, _, _)
disconnectUserFrom(cu, us, userId, arr, k, len, closed) ==
  IF k >= len THEN [connectedUsers |-> cu, userSockets |-> us, closed |-> closed]
  ELSE IF k >= Len(arr)
       THEN disconnectUserFrom(cu, us, userId, arr, k + 1, len, closed)
       ELSE LET socketId == arr[k + 1]
                after    == handleDisconnection(cu, us, socketId)
                left     == IF userId \in DOMAIN after.connectedUsers
                            THEN after.connectedUsers[userId]
                            ELSE << >>
            IN disconnectUserFrom(after.connectedUsers, after.userSockets, userId,
                                  left, k + 1, len, closed \cup {socketId})

\* disconnectUser(userId, reason)
disconnectUser(cu, us, userId) ==
  LET socketIds == IF userId \in DOMAIN cu THEN cu[userId] ELSE << >>
  IN disconnectUserFrom(cu, us, userId, socketIds, 0, Len(socketIds), {})

\* a caller of disconnectUser; every socket it disconnects is closed as in
\* Disconnect
DisconnectUser(userId) ==
  /\ io
  /\ LET after == disconnectUser(connectedUsers, userSockets, userId)
     IN /\ connectedUsers' = after.connectedUsers
        /\ userSockets' = after.userSockets
        /\ conn' = [s \in SocketIds |-> IF s \in after.closed THEN "closed" ELSE conn[s]]
        /\ rooms' = [s \in SocketIds |-> IF s \in after.closed THEN {} ELSE rooms[s]]
        /\ outbound' = [s \in SocketIds |->
                          IF s \in after.closed THEN << >> ELSE outbound[s]]
        /\ socketUser' = [s \in SocketIds |->
                            IF s \in after.closed THEN "none" ELSE socketUser[s]]
        /\ socketToken' = [s \in SocketIds |->
                             IF s \in after.closed THEN NoToken ELSE socketToken[s]]
  /\ UNCHANGED <<io, published, nsub, lastBroadcast>>
  /\ UNCHANGED otherVars

(* ------------------------------------------------- credentials in use *)
SessionInit == revoked = << >> /\ deactivated = {}

\* the middleware of io.use against the collections as they are now:
\* BlacklistedToken.findOne({ token }) and User.findById(...).isActive
AuthenticateNow(token, revokedNow, deactivatedNow) ==
  IF Authenticate(token) # "ok" THEN Authenticate(token)
  ELSE IF token.raw \in DOMAIN revokedNow THEN "Token has been revoked"
  ELSE IF token.userId \in deactivatedNow THEN "User not found or inactive"
  ELSE "ok"

\* a handshake that passes the middleware now
HandshakeNow(s, token) ==
  /\ AuthenticateNow(token, revoked, deactivated) = "ok"
  /\ HandshakeAccepted(s, token)

\* POST /auth/logout with the access token and a refresh token:
\* blacklistToken(req.token, 'access', req.user.id, 'logout') creates the
\* BlacklistedToken document; nothing of the WebSocketService is called
LogoutToken(token) ==
  /\ AuthenticateNow(token, revoked, deactivated) = "ok"
  /\ revoked' = MapSet(revoked, token.raw, published)
  /\ UNCHANGED deactivated
  /\ UNCHANGED <<wsVars, subVars, payloadVars, authVars, cacheVars, jobVars, deviceVars, exportVars>>

\* isActive of a user document is set to false (no code of the server does
\* it; the handshake reads the field)
DeactivateUser(userId) ==
  /\ UserDb[userId].isActive
  /\ userId \notin deactivated
  /\ deactivated' = deactivated \cup {userId}
  /\ UNCHANGED revoked
  /\ UNCHANGED <<wsVars, subVars, payloadVars, authVars, cacheVars, jobVars, deviceVars, exportVars>>

(* -------------------------------------------------------------- payloads *)
\* { ...a, ...b }: the keys of b replace those of a
Spread(a, b) ==
  [k \in DOMAIN a \cup DOMAIN b |-> IF k \in DOMAIN b THEN b[k] ELSE a[k]]

\* const payload = { deviceId, status: 'online', ...data, timestamp: new Date() }
heartbeatPayload(deviceId, data) ==
  Spread(Spread([deviceId |-> deviceId, status |-> "online"], data),
         [timestamp |-> ServerTime])

\* const payload = { deviceId, oldStatus, newStatus, ...data, timestamp: new Date() }
statusChangePayload(deviceId, oldStatus, newStatus, data) ==
  Spread(Spread([deviceId |-> deviceId, oldStatus |-> oldStatus, newStatus |-> newStatus],
                data),
         [timestamp |-> ServerTime])

\* const payload = { deviceId, error: error.message || error,
\*                   severity: error.severity || 'error', timestamp: new Date() }
\* "" is the falsy string
errorPayload(deviceId, error) ==
  [deviceId  |-> deviceId,
   error     |-> IF "message" \in DOMAIN error /\ error.message # ""
                 THEN error.message ELSE error,
   severity  |-> IF "severity" \in DOMAIN error /\ error.severity # ""
                 THEN error.severity ELSE "error",
   timestamp |-> ServerTime]

\* broadcastDeviceHeartbeat(device.deviceId, device.organization, req.body)
BuildHeartbeatPayload ==
  /\ call.kind = "device:heartbeat"
  /\ message = NoMessage
  /\ message' = [event |-> "device:heartbeat",
                  payload |-> heartbeatPayload(call.deviceId, call.data)]
  /\ UNCHANGED <<wsVars, subVars, call, authVars, cacheVars, jobVars, restVars>>

\* broadcastDeviceStatusChange(deviceId, organization, oldStatus, newStatus, data)
BuildStatusChangePayload ==
  /\ call.kind = "device:status_change"
  /\ message = NoMessage
  /\ message' = [event |-> "device:status_change",
                  payload |-> statusChangePayload(call.deviceId, "unknown", "online",
                                                  call.data)]
  /\ UNCHANGED <<wsVars, subVars, call, authVars, cacheVars, jobVars, restVars>>

\* logDeviceEvent: broadcastDeviceError(deviceId, organization,
\*                                      { message, severity, data })
BuildErrorPayload ==
  /\ call.kind = "device:error"
  /\ message = NoMessage
  /\ message' = [event |-> "device:error",
                  payload |-> errorPayload(call.deviceId, call.data)]
  /\ UNCHANGED <<wsVars, subVars, call, authVars, cacheVars, jobVars, restVars>>

(* ------------------------------------------------------------------ auth *)
\* the account that logs in, from any number of clients
AuthUsers == {"alice"}

\* jwt.sign({ userId, type }, secret, { expiresIn }): the token is a function
\* of the payload, the secret and iat, the second it is signed in (exp is
\* iat plus a constant); signed tells a token signed with the server's
\* secret for its type from any other string
jwtSign(userId, type, iat) ==
  [userId |-> userId, type |-> type, iat |-> iat, signed |-> TRUE]

generateAccessToken(userId, t) == jwtSign(userId, "access", t)

generateRefreshToken(userId, t) == jwtSign(userId, "refresh", t)

\* a refresh token string the server never signed
ForgedRefreshToken == [userId |-> "alice", type |-> "refresh", iat |-> 0, signed |-> FALSE]

\* no refresh token in the cookie or the body of a logout request
NoRefreshToken == [userId |-> "", type |-> "none", iat |-> 0, signed |-> FALSE]

\* the tokens the clients hold
AccessTokensHeld == {generateAccessToken(i.userId, i.iat) : i \in issued}

RefreshTokensHeld == {generateRefreshToken(i.userId, i.iat) : i \in issued}

\* user.addRefreshToken(token, expiresAt)
addRefreshToken(stored, userId, token) ==
  [stored EXCEPT ![userId] = @ \cup {token}]

\* user.removeRefreshToken(token)
removeRefreshToken(stored, userId, token) ==
  [stored EXCEPT ![userId] = @ \ {token}]

\* The outcome of AuthService.refreshToken(refreshToken): "ok", or the
\* message of the error thrown.  jwt.verify with the refresh secret rejects a
\* string that was not signed with it, an access token included.
refreshTokenResult(stored, rt) ==
  IF ~rt.signed \/ rt.type # "refresh" THEN "invalid signature"
  ELSE IF rt.userId \notin DOMAIN UserDb \/ ~UserDb[rt.userId].isActive
       THEN "User not found"
  ELSE IF rt \notin stored[rt.userId] THEN "Invalid refresh token"
  ELSE "ok"

\* user.refreshTokens after AuthService.refreshToken(rt) at second t
refreshToken(stored, rt, t) ==
  IF refreshTokenResult(stored, rt) = "ok"
  THEN addRefreshToken(removeRefreshToken(stored, rt.userId, rt),
                       rt.userId, generateRefreshToken(rt.userId, t))
  ELSE stored

\* reason: { enum: ['logout', 'revoked', 'security_breach', 'expired'] }
BlacklistReasons == {"logout", "revoked", "security_breach", "expired"}

\* AuthService.blacklistToken(token, tokenType, userId, reason):
\* BlacklistedToken.create validates the document and throws, storing
\* nothing, when reason is not one of the enum's values
blacklistToken(bl, token, reason) ==
  IF reason \in BlacklistReasons THEN bl \cup {token} ELSE bl

\* authMiddleware: "ok" stands for next(), anything else is the message of
\* the 401 response
authMiddleware(bl, token) ==
  IF token \in bl THEN "Token has been revoked"
  ELSE IF ~token.signed \/ token.type # "access" THEN "Invalid token"
  ELSE IF token.userId \notin DOMAIN UserDb \/ ~UserDb[token.userId].isActive
       THEN "User not found or inactive"
  ELSE "ok"

AuthInit ==
  /\ now = 0
  /\ refreshTokens = [u \in AuthUsers |-> {}]
  /\ blacklist = {}
  /\ issued = {}
  /\ rotated = {}
  /\ loggedOut = {}
  /\ loggedOutAll = {}

\* a second passes
Tick ==
  /\ now < MaxTime
  /\ now' = now + 1
  /\ UNCHANGED <<refreshTokens, blacklist, issued, rotated, loggedOut, loggedOutAll>>
  /\ UNCHANGED <<wsVars, subVars, payloadVars, cacheVars, jobVars, restVars>>

\* POST /auth/login with the right password: AuthService.login
Login(userId) ==
  /\ refreshTokens' = addRefreshToken(refreshTokens, userId,
                                       generateRefreshToken(userId, now))
  /\ issued' = issued \cup {[userId |-> userId, iat |-> now]}
  /\ UNCHANGED <<now, blacklist, rotated, loggedOut, loggedOutAll>>
  /\ UNCHANGED <<wsVars, subVars, payloadVars, cacheVars, jobVars, restVars>>

\* POST /auth/refresh-token: AuthController.refreshToken -> AuthService.refreshToken
RefreshToken(rt) ==
  /\ refreshTokens' = refreshToken(refreshTokens, rt, now)
  /\ issued' = IF refreshTokenResult(refreshTokens, rt) = "ok"
                THEN issued \cup {[userId |-> rt.userId, iat |-> now]}
                ELSE issued
  /\ rotated' = IF refreshTokenResult(refreshTokens, rt) = "ok"
                 THEN rotated \cup {rt}
                 ELSE rotated
  /\ UNCHANGED <<now, blacklist, loggedOut, loggedOutAll>>
  /\ UNCHANGED <<wsVars, subVars, payloadVars, cacheVars, jobVars, restVars>>

\* POST /auth/logout behind authMiddleware, with access token `token` and
\* refresh token rt in the cookie or the body (NoRefreshToken: in neither)
Logout(token, rt) ==
  /\ authMiddleware(blacklist, token) = "ok"
  /\ IF rt # NoRefreshToken
     THEN /\ refreshTokens' = removeRefreshToken(refreshTokens, token.userId, rt)
          /\ blacklist' = blacklistToken(blacklist, token, "logout")
     ELSE UNCHANGED <<refreshTokens, blacklist>>
  /\ loggedOut' = loggedOut \cup {token}
  /\ UNCHANGED <<now, issued, rotated, loggedOutAll>>
  /\ UNCHANGED <<wsVars, subVars, payloadVars, cacheVars, jobVars, restVars>>

\* POST /auth/logout-all behind authMiddleware: AuthService.logoutAll, then
\* blacklistToken(req.token, 'access', req.user.id, 'logout_all'), which
\* throws, so that the request is answered with the error
LogoutAll(token) ==
  /\ authMiddleware(blacklist, token) = "ok"
  /\ refreshTokens' = [refreshTokens EXCEPT ![token.userId] = {}]
  /\ blacklist' = blacklistToken(blacklist, token, "logout_all")
  /\ loggedOutAll' = loggedOutAll \cup {token}
  /\ UNCHANGED <<now, issued, rotated, loggedOut>>
  /\ UNCHANGED <<wsVars, subVars, payloadVars, cacheVars, jobVars, restVars>>

(* ------------------------------------------------------- GET /devices/:id *)
\* The devices collection with the fields getDeviceById reads.
DeviceDocs ==
  [d \in {"SENSOR_001", "LOCK_2", "CAM_7"} |->
     CASE d = "SENSOR_001" -> [deviceId |-> d, organization |-> "TechCorp",
                               owner |-> "alice", isActive |-> TRUE]
       [] d = "LOCK_2"     -> [deviceId |-> d, organization |-> "TechCorp",
                               owner |-> "mallory", isActive |-> TRUE]
       [] d = "CAM_7"      -> [deviceId |-> d, organization |-> "North_InnovateLab",
                               owner |-> "carol", isActive |-> TRUE]]

\* the users authMiddleware lets through
ActiveUsers == {u \in DOMAIN UserDb : UserDb[u].isActive}

NoResponse == [userId |-> "none", status |-> "none", device |-> "none", xCache |-> "none"]

CacheInit == cache = << >> /\ response = NoResponse

\* keyGenerators.device: `device:${req.params.id}`
DeviceCacheKey(deviceId) == "device:" \o deviceId

\* DeviceService.getDeviceById(deviceId, user): the status of the answer and
\* the device returned
getDeviceById(deviceId, userId) ==
  LET user  == UserDb[userId]
      found == /\ deviceId \in DOMAIN DeviceDocs
               /\ DeviceDocs[deviceId].isActive
               /\ user.role # "admin" =>
                    DeviceDocs[deviceId].organization = user.organization
  IN IF ~found THEN [status |-> "404", device |-> "none"]
     ELSE IF user.role = "user" /\ DeviceDocs[deviceId].owner # userId
          THEN [status |-> "403", device |-> "none"]
     ELSE [status |-> "200", device |-> DeviceDocs[deviceId]]

\* GET /devices/:id by an authenticated user: authMiddleware,
\* cacheMiddlewares.device, deviceController.getDevice.  usable is
\* config.nodeEnv # 'development' and redisClient.isHealthy().
GetDevice(userId, deviceId, usable) ==
  LET key == DeviceCacheKey(deviceId)
      got == getDeviceById(deviceId, userId)
  IN IF usable /\ key \in DOMAIN cache
     THEN /\ response' = [userId |-> userId, status |-> "200",
                           device |-> cache[key], xCache |-> "HIT"]
          /\ UNCHANGED cache
     ELSE /\ response' = [userId |-> userId, status |-> got.status,
                           device |-> got.device,
                           xCache |-> IF usable THEN "MISS" ELSE "none"]
          /\ cache' = IF usable /\ got.status = "200"
                       THEN MapSet(cache, key, got.device)
                       ELSE cache

GetDeviceRequest(userId, deviceId, usable) ==
  /\ GetDevice(userId, deviceId, usable)
  /\ UNCHANGED <<wsVars, subVars, payloadVars, authVars, jobVars, restVars>>

\* invalidateCache.device(deviceId) after an update, or the key's TTL runs out
InvalidateDeviceCache(deviceId) ==
  /\ DeviceCacheKey(deviceId) \in DOMAIN cache
  /\ cache' = MapDelete(cache, DeviceCacheKey(deviceId))
  /\ UNCHANGED response
  /\ UNCHANGED <<wsVars, subVars, payloadVars, authVars, jobVars, restVars>>

(* ------------------------------------------------ deactivateInactiveDevices *)
\* primary keys of the devices table
DeviceRowIds == {"d1", "d2"}

\* last_active_at: << >> is NULL, <<t>> is hour t
Null == << >>

\* the hours argument of the job: parseInt(process.env.DEVICE_TIMEOUT_HOURS) || 24
TimeoutHours == {1, 2}

NoJob == [pc |-> "idle", hours |-> 0, selected |-> {}]

NoJobResult == [count |-> 0, devices |-> {}]

\* devices as Device.create leaves them without a heartbeat
JobInit ==
  /\ deviceRows = [d \in DeviceRowIds |-> [status |-> "active", last_active_at |-> Null]]
  /\ hour = 0
  /\ job = NoJob
  /\ jobResult = NoJobResult

\* getInactiveDevices(hours): status 'active' and last_active_at NULL or
\* before cutoffTime = now - hours
getInactiveDevices(rows, t, hours) ==
  {d \in DOMAIN rows :
     /\ rows[d].status = "active"
     /\ \/ rows[d].last_active_at = Null
        \/ rows[d].last_active_at[1] < t - hours}

\* Device.update({ status: 'inactive' }, { where: { id: { [Op.in]: deviceIds } } })
updateInactive(rows, deviceIds) ==
  [d \in DOMAIN rows |->
     IF d \in deviceIds THEN [rows[d] EXCEPT !.status = "inactive"] ELSE rows[d]]

\* an hour passes
TickHour ==
  /\ hour < MaxHour
  /\ hour' = hour + 1
  /\ UNCHANGED <<deviceRows, job, jobResult>>
  /\ UNCHANGED <<wsVars, subVars, payloadVars, authVars, cacheVars, restVars>>

\* recordHeartbeat(deviceId, data): last_active_at: new Date(), and
\* data.status when the heartbeat carries one ("": it does not)
RecordHeartbeat(d, status) ==
  /\ deviceRows' = [deviceRows EXCEPT ![d] =
                       [status |-> IF status # "" THEN status ELSE @.status,
                        last_active_at |-> <<hour>>]]
  /\ UNCHANGED <<hour, job, jobResult>>
  /\ UNCHANGED <<wsVars, subVars, payloadVars, authVars, cacheVars, restVars>>

\* deactivateInactiveDevices(hours) up to its second await: the query of
\* getInactiveDevices has answered; with no rows the run returns at once
SelectInactiveDevices(hours) ==
  /\ job.pc = "idle"
  /\ LET found == getInactiveDevices(deviceRows, hour, hours)
     IN IF found = {}
        THEN /\ jobResult' = [count |-> 0, devices |-> {}]
             /\ UNCHANGED job
        ELSE /\ job' = [pc |-> "update", hours |-> hours, selected |-> found]
             /\ UNCHANGED jobResult
  /\ UNCHANGED <<deviceRows, hour>>
  /\ UNCHANGED <<wsVars, subVars, payloadVars, authVars, cacheVars, restVars>>

\* the rest of the run: Device.update for the ids selected, and the return
UpdateInactiveDevices ==
  /\ job.pc = "update"
  /\ deviceRows' = updateInactive(deviceRows, job.selected)
  /\ jobResult' = [count |-> Cardinality(job.selected), devices |-> job.selected]
  /\ job' = NoJob
  /\ UNCHANGED hour
  /\ UNCHANGED <<wsVars, subVars, payloadVars, authVars, cacheVars, restVars>>

(* ------------------------------------------------------ device endpoints *)
\* status: { enum: ['online', 'offline', 'maintenance', 'error'] }
Statuses == {"online", "offline", "maintenance", "error"}

\* the users whose requests reach the device controller
DeviceUsers == {"alice", "carol"}

\* device ids a request may name: the two devices of the collection, one
\* that can be created, and one that never exists
RequestIds == {"SENSOR_001", "CAM_7", "LOCK_2", "GHOST_9"}

CreatableIds == {"LOCK_2"}

\* req.body of a heartbeat: the route validates the path parameter only
HeartbeatBodies == {d \in PayloadData : DOMAIN d \in {{}, {"battery"}}}

\* the value of a property an object does not have
Undefined == "undefined"

NoDevice ==
  [deviceId |-> "none", organization |-> "none", owner |-> "none",
   isActive |-> FALSE, status |-> "none", lastSeen |-> Null]

NoReply == [op |-> "none", id |-> "none", userId |-> "none", code |-> "none",
            status |-> "none", ok |-> {}]

NoEvent == [name |-> "none", organization |-> "none", payload |-> [deviceId |-> "none"]]

NoLog == [deviceId |-> "none", eventType |-> "none", data |-> [none |-> "none"]]

\* new Device(deviceData): status defaults to 'offline', isActive to true,
\* and connectivity.lastSeen is not set
NewDevice(deviceId, organization, owner) ==
  [deviceId |-> deviceId, organization |-> organization, owner |-> owner,
   isActive |-> TRUE, status |-> "offline", lastSeen |-> Null]

DeviceInit ==
  /\ devices = [d \in DOMAIN DeviceDb |->
                  NewDevice(d, DeviceDocs[d].organization, DeviceDocs[d].owner)]
  /\ clock = 0
  /\ nreq = 0
  /\ reply = NoReply
  /\ emitted = NoEvent
  /\ deviceLog = NoLog

\* req.params of a request matched by router.post('/:id/heartbeat', ...)
RouteParams(id) == [id |-> id]

\* obj[name]
Prop(obj, name) == IF name \in DOMAIN obj THEN obj[name] ELSE Undefined

\* Device.findOne({ deviceId, isActive: true }): the documents the query may
\* answer with (NoDevice is null).  A filter value that is undefined reaches
\* the server as null, which no deviceId equals, or is left out of the
\* filter, which then matches any active device, depending on the driver.
findOneActive(docs, deviceId) ==
  IF deviceId = Undefined
  THEN {NoDevice} \cup {docs[d] : d \in {x \in DOMAIN docs : docs[x].isActive}}
  ELSE IF deviceId \in DOMAIN docs /\ docs[deviceId].isActive
       THEN {docs[deviceId]}
       ELSE {NoDevice}

\* deviceSchema.methods.updateHeartbeat
updateHeartbeat(device, t) ==
  [device EXCEPT !.lastSeen = <<t>>,
                 !.status = IF @ = "offline" THEN "online" ELSE @]

\* deviceSchema.methods.updateStatus
updateStatus(device, newStatus, t) ==
  [device EXCEPT !.status = newStatus,
                 !.lastSeen = IF newStatus = "online" THEN <<t>> ELSE @]

\* DeviceService.getDeviceById(deviceId, user) on the collection as it is
\* now: the status of the answer and the document returned
getDeviceByIdIn(docs, deviceId, userId) ==
  LET user  == UserDb[userId]
      found == /\ deviceId \in DOMAIN docs
               /\ docs[deviceId].isActive
               /\ user.role # "admin" =>
                    docs[deviceId].organization = user.organization
  IN IF ~found THEN [status |-> "404", device |-> NoDevice]
     ELSE IF user.role = "user" /\ docs[deviceId].owner # userId
          THEN [status |-> "403", device |-> NoDevice]
     ELSE [status |-> "200", device |-> docs[deviceId]]

\* what every request to a device endpoint shares
Request ==
  /\ nreq < MaxRequests
  /\ nreq' = nreq + 1
  /\ UNCHANGED clock
  /\ UNCHANGED <<wsVars, subVars, payloadVars, authVars, cacheVars, jobVars, sessionVars, exportVars>>

\* an answer that is an error: next(error), nothing written or broadcast
Refused(op, id, userId, code) ==
  /\ reply' = [op |-> op, id |-> id, userId |-> userId, code |-> code,
               status |-> "none", ok |-> {}]
  /\ emitted' = NoEvent
  /\ deviceLog' = NoLog
  /\ UNCHANGED devices

\* time passes
TickClock ==
  /\ clock < MaxClock
  /\ clock' = clock + 1
  /\ UNCHANGED <<devices, nreq, reply, emitted, deviceLog>>
  /\ UNCHANGED <<wsVars, subVars, payloadVars, authVars, cacheVars, jobVars, sessionVars, exportVars>>

\* POST /devices/:id/heartbeat: DeviceController.deviceHeartbeat reads
\* req.params.deviceId, then DeviceService.updateHeartbeat(deviceId, body)
\* and broadcastDeviceHeartbeat(device.deviceId, device.organization, body)
DeviceHeartbeat(userId, id, body) ==
  /\ Request
  /\ LET deviceId == Prop(RouteParams(id), "deviceId")
     IN \E found \in findOneActive(devices, deviceId) :
          IF found = NoDevice
          THEN Refused("heartbeat", id, userId, "404")
          ELSE LET device == updateHeartbeat(found, clock)
               IN /\ devices' = [devices EXCEPT ![device.deviceId] = device]
                  /\ deviceLog' = [deviceId |-> device.deviceId,
                                   eventType |-> "heartbeat", data |-> body]
                  /\ emitted' = [name |-> "device:heartbeat",
                               organization |-> device.organization,
                               payload |-> heartbeatPayload(device.deviceId, body)]
                  /\ reply' = [op |-> "heartbeat", id |-> id, userId |-> userId,
                               code |-> "200", status |-> device.status,
                               ok |-> {device.deviceId}]

\* PATCH /devices/:id/status with body { status, oldStatus } ("" stands for
\* a body without oldStatus): DeviceService.updateDeviceStatus, then
\* broadcastDeviceStatusChange(device.deviceId, device.organization,
\*   req.body.oldStatus || 'unknown', status, { updatedBy })
UpdateDeviceStatus(userId, id, status, bodyOldStatus) ==
  /\ Request
  /\ LET got == getDeviceByIdIn(devices, id, userId)
     IN IF got.status # "200"
        THEN Refused("status", id, userId, got.status)
        ELSE LET oldStatus == got.device.status
                 device    == updateStatus(got.device, status, clock)
             IN /\ devices' = [devices EXCEPT ![id] = device]
                /\ deviceLog' = [deviceId |-> id, eventType |-> "status_change",
                                 data |-> [oldStatus |-> oldStatus, newStatus |-> status,
                                           changedBy |-> userId]]
                /\ emitted' = [name |-> "device:status_change",
                             organization |-> device.organization,
                             payload |-> statusChangePayload(
                                id, IF bodyOldStatus # "" THEN bodyOldStatus ELSE "unknown",
                                status, [updatedBy |-> userId])]
                /\ reply' = [op |-> "status", id |-> id, userId |-> userId,
                             code |-> "200", status |-> device.status, ok |-> {id}]

\* POST /devices: DeviceService.createDevice sets the organization of the
\* device to user.organization; the event goes to req.user.organization
CreateDevice(userId, id) ==
  /\ Request
  /\ IF id \in DOMAIN devices
     THEN Refused("create", id, userId, "409")
     ELSE LET device == NewDevice(id, UserDb[userId].organization, userId)
          IN /\ devices' = MapSet(devices, id, device)
             /\ deviceLog' = [deviceId |-> id, eventType |-> "configuration_change",
                              data |-> [createdBy |-> userId]]
             /\ emitted' = [name |-> "device:created",
                          organization |-> UserDb[userId].organization,
                          payload |-> [deviceId |-> id, createdBy |-> userId]]
             /\ reply' = [op |-> "create", id |-> id, userId |-> userId,
                          code |-> "201", status |-> device.status, ok |-> {id}]

\* PUT /devices/:id with a change of the name: DeviceService.updateDevice,
\* then broadcastToOrganization(req.user.organization, 'device:updated', ...)
UpdateDevice(userId, id) ==
  /\ Request
  /\ LET got == getDeviceByIdIn(devices, id, userId)
     IN IF got.status # "200"
        THEN Refused("update", id, userId, got.status)
        ELSE /\ UNCHANGED devices
             /\ deviceLog' = [deviceId |-> id, eventType |-> "configuration_change",
                              data |-> [updatedBy |-> userId]]
             /\ emitted' = [name |-> "device:updated",
                          organization |-> UserDb[userId].organization,
                          payload |-> [deviceId |-> id, updatedBy |-> userId]]
             /\ reply' = [op |-> "update", id |-> id, userId |-> userId,
                          code |-> "200", status |-> got.device.status, ok |-> {id}]

\* DELETE /devices/:id: DeviceService.deleteDevice (soft delete), then
\* broadcastToOrganization(req.user.organization, 'device:deleted', ...)
DeleteDevice(userId, id) ==
  /\ Request
  /\ LET got == getDeviceByIdIn(devices, id, userId)
     IN IF got.status # "200"
        THEN Refused("delete", id, userId, got.status)
        ELSE /\ devices' = [devices EXCEPT ![id].isActive = FALSE]
             /\ deviceLog' = [deviceId |-> id, eventType |-> "configuration_change",
                              data |-> [deletedBy |-> userId]]
             /\ emitted' = [name |-> "device:deleted",
                          organization |-> UserDb[userId].organization,
                          payload |-> [deviceId |-> id, deletedBy |-> userId]]
             /\ reply' = [op |-> "delete", id |-> id, userId |-> userId,
                          code |-> "200", status |-> "none", ok |-> {id}]

\* PATCH /devices/bulk behind authorize('admin'): updateDevice for every id of
\* req.body.deviceIds, failures collected in results, then
\* broadcastToOrganization(req.user.organization, 'devices:bulk_updated',
\*                         { deviceIds, updates, updatedBy, timestamp })
BulkUpdateDevices(userId, deviceIds) ==
  /\ Request
  /\ UserDb[userId].role = "admin"
  /\ LET updated == {d \in deviceIds : getDeviceByIdIn(devices, d, userId).status = "200"}
         logged  == IF updated = {} THEN NoLog
                    ELSE [deviceId |-> CHOOSE d \in updated : TRUE,
                          eventType |-> "configuration_change",
                          data |-> [updatedBy |-> userId]]
     IN /\ UNCHANGED devices
        /\ deviceLog' = logged
        /\ emitted' = [name |-> "devices:bulk_updated",
                     organization |-> UserDb[userId].organization,
                     payload |-> [deviceIds |-> deviceIds, updatedBy |-> userId]]
        /\ reply' = [op |-> "bulk", id |-> "bulk", userId |-> userId,
                     code |-> "200", status |-> "none", ok |-> updated]

(* ------------------------------------------------------------ export jobs *)
\* jobId values uuidv4() hands out
JobIds == {"j1", "j2"}

\* the users that create, cancel and download exports
ExportUsers == {"alice", "bob"}

\* a jobId no document has
NoExportJob == [exists |-> FALSE, userId |-> "none", status |-> "none",
                pc |-> "none", filePath |-> FALSE]

NoDownload == [userId |-> "none", jobId |-> "none", code |-> "none"]

ExportInit ==
  /\ exportJobs = [j \in JobIds |-> NoExportJob]
  /\ download = NoDownload

\* updateJobStatus(jobId, status, ...): ExportJob.findOneAndUpdate({ jobId },
\* update), which writes whatever status the job has and, without
\* runValidators, whatever the new status is
updateJobStatus(jobs, jobId, status) ==
  IF jobs[jobId].exists THEN [jobs EXCEPT ![jobId].status = status] ELSE jobs

\* downloadFile(jobId, userId): the status code of the answer
downloadFile(jobs, jobId, userId) ==
  IF ~jobs[jobId].exists \/ jobs[jobId].userId # userId THEN "404"
  ELSE IF jobs[jobId].status # "completed" THEN "400"
  ELSE IF ~jobs[jobId].filePath THEN "404"
  ELSE "200"

ExportOthers ==
  UNCHANGED <<wsVars, subVars, payloadVars, authVars, cacheVars, jobVars,
              deviceVars, sessionVars>>

\* POST /exports: createExportJob saves the job as 'pending' and starts
\* processExportJob without awaiting it
CreateExportJob(userId, jobId) ==
  /\ ~exportJobs[jobId].exists
  /\ exportJobs' = [exportJobs EXCEPT ![jobId] =
                      [exists |-> TRUE, userId |-> userId, status |-> "pending",
                       pc |-> "start", filePath |-> FALSE]]
  /\ UNCHANGED download
  /\ ExportOthers

\* processExportJob up to its export: the job is found and
\* updateJobStatus(jobId, 'processing', ...) has answered
ProcessStart(jobId) ==
  /\ exportJobs[jobId].pc = "start"
  /\ exportJobs' = [updateJobStatus(exportJobs, jobId, "processing")
                      EXCEPT ![jobId].pc = "export"]
  /\ UNCHANGED download
  /\ ExportOthers

\* the export has written its file: updateJobStatus(jobId, 'completed', ...,
\* result), then the notification, which only logs
ProcessCompleted(jobId) ==
  /\ exportJobs[jobId].pc = "export"
  /\ exportJobs' = [updateJobStatus(exportJobs, jobId, "completed")
                      EXCEPT ![jobId].pc = "done", ![jobId].filePath = TRUE]
  /\ UNCHANGED download
  /\ ExportOthers

\* the export throws (a query or a file write fails)
ProcessThrows(jobId) ==
  /\ exportJobs[jobId].pc = "export"
  /\ exportJobs' = [exportJobs EXCEPT ![jobId].pc = "catch"]
  /\ UNCHANGED download
  /\ ExportOthers

\* the catch of processExportJob: updateJobStatus(jobId, 'failed', ...), throw
ProcessCatch(jobId) ==
  /\ exportJobs[jobId].pc = "catch"
  /\ exportJobs' = [updateJobStatus(exportJobs, jobId, "failed")
                      EXCEPT ![jobId].pc = "rejected"]
  /\ UNCHANGED download
  /\ ExportOthers

\* the .catch of createExportJob: updateJobStatus(jobId, 'failed', ...) again
CreateCatch(jobId) ==
  /\ exportJobs[jobId].pc = "rejected"
  /\ exportJobs' = [updateJobStatus(exportJobs, jobId, "failed")
                      EXCEPT ![jobId].pc = "done"]
  /\ UNCHANGED download
  /\ ExportOthers

\* PATCH /exports/:jobId/cancel by any authenticated user:
\* updateJobStatus(jobId, 'cancelled', ...), with no look at the owner or at
\* the status of the job
CancelExport(userId, jobId) ==
  /\ exportJobs' = updateJobStatus(exportJobs, jobId, "cancelled")
  /\ UNCHANGED download
  /\ ExportOthers

\* GET /exports/:jobId/download: downloadFile(jobId, req.user._id)
DownloadExport(userId, jobId) ==
  /\ download' = [userId |-> userId, jobId |-> jobId,
                  code |-> downloadFile(exportJobs, jobId, userId)]
  /\ UNCHANGED exportJobs
  /\ ExportOthers

(* -------------------------------------------------------- specifications *)
Init ==
  /\ WsInit
  /\ SubscriptionInit
  /\ PayloadInit
  /\ AuthInit
  /\ CacheInit
  /\ JobInit
  /\ DeviceInit
  /\ SessionInit
  /\ ExportInit

Next ==
  \/ Initialize
  \/ \E s \in SocketIds, token \in Tokens : HandshakeAccepted(s, token)
  \/ \E s \in SocketIds, token \in Tokens : HandshakeRejected(s, token)
  \/ \E s \in SocketIds : Disconnect(s)
  \/ \E s \in SocketIds : DisconnectAgain(s)
  \/ \E s \in SocketIds, ids \in SubscribeRequests : SubscribeDevices(s, ids)
  \/ \E s \in SocketIds, ids \in SubscribeRequests : SubscribeAfterClose(s, ids)
  \/ \E d \in DOMAIN DeviceDb : BroadcastDeviceHeartbeat(d)
  \/ \E d \in DOMAIN DeviceDb : BroadcastDeviceStatusChange(d)
  \/ \E d \in DOMAIN DeviceDb : BroadcastDeviceError(d)
  \/ \E o \in Organizations, e \in OrgEvents : BroadcastToOrganization(o, e)
  \/ \E s \in SocketIds : HandleDeviceStatusUpdate(s)
  \/ \E s \in SocketIds : Drain(s)

Spec == Init /\ [][Next]_vars

\* The notification calls of the service (to one user, to one organization,
\* to everybody) over the same connections.
NextNotify ==
  \/ Initialize
  \/ \E s \in SocketIds, token \in Tokens : HandshakeAccepted(s, token)
  \/ \E s \in SocketIds : Disconnect(s)
  \/ \E s \in SocketIds, ids \in SubscribeRequests : SubscribeDevices(s, ids)
  \/ \E o \in Organizations, e \in OrgEvents : BroadcastToOrganization(o, e)
  \/ \E o \in Organizations \cup {""} : BroadcastSystemNotification(o)
  \/ \E u \in DOMAIN UserDb, e \in UserEvents : BroadcastToUser(u, e)
  \/ \E s \in SocketIds : Drain(s)

SpecNotify == Init /\ [][NextNotify]_vars

\* The registry operations alone: connections come and go, one by one and
\* through disconnectUser.
NextRegistry ==
  \/ Initialize
  \/ \E s \in SocketIds, token \in Tokens : HandshakeAccepted(s, token)
  \/ \E s \in SocketIds, token \in Tokens : HandshakeRejected(s, token)
  \/ \E s \in SocketIds : Disconnect(s)
  \/ \E s \in SocketIds : DisconnectAgain(s)
  \/ \E s \in SocketIds, ids \in SubscribeRequests : SubscribeDevices(s, ids)
  \/ \E u \in DOMAIN UserDb : DisconnectUser(u)
  \/ \E s \in SocketIds : Drain(s)

SpecRegistry == Init /\ [][NextRegistry]_vars

\* Connections that outlive their credential: logouts and deactivations of
\* the users that are connected, next to handshakes, disconnects and the
\* broadcasts to an organization.
NextSession ==
  \/ Initialize
  \/ \E s \in SocketIds, token \in Tokens : HandshakeNow(s, token)
  \/ \E s \in DOMAIN userSockets : LogoutToken(socketToken[s])
  \/ \E s \in DOMAIN userSockets : DeactivateUser(userSockets[s].userId)
  \/ \E s \in SocketIds : Disconnect(s)
  \/ \E u \in DOMAIN UserDb : DisconnectUser(u)
  \/ \E o \in Organizations, e \in OrgEvents : BroadcastToOrganization(o, e)
  \/ \E s \in SocketIds : Drain(s)

SpecSession == Init /\ [][NextSession]_vars

\* The device:status messages of the clients.
NextClient ==
  \/ Initialize
  \/ \E s \in SocketIds, token \in Tokens : HandshakeAccepted(s, token)
  \/ \E s \in SocketIds : Disconnect(s)
  \/ \E s \in SocketIds, ids \in SubscribeRequests : SubscribeDevices(s, ids)
  \/ \E s \in SocketIds, data \in StatusMessages : ClientDeviceStatus(s, data)
  \/ \E s \in SocketIds : Drain(s)

SpecClient == Init /\ [][NextClient]_vars

\* The export jobs: the requests of the users and the steps of the
\* processExportJob run each job starts.
NextExport ==
  \/ \E u \in ExportUsers, j \in JobIds : CreateExportJob(u, j)
  \/ \E j \in JobIds : ProcessStart(j)
  \/ \E j \in JobIds : ProcessCompleted(j)
  \/ \E j \in JobIds : ProcessThrows(j)
  \/ \E j \in JobIds : ProcessCatch(j)
  \/ \E j \in JobIds : CreateCatch(j)
  \/ \E u \in ExportUsers, j \in JobIds : CancelExport(u, j)
  \/ \E u \in ExportUsers, j \in JobIds : DownloadExport(u, j)

SpecExport == Init /\ [][NextExport]_vars

\* The subscription requests of the clients, without the broadcasts.
NextSubscription ==
  \/ Initialize
  \/ \E s \in SocketIds, token \in Tokens : HandshakeAccepted(s, token)
  \/ \E s \in SocketIds : Disconnect(s)
  \/ \E s \in SocketIds, ids \in SubscribeRequests : SubscribeDevices(s, ids)
  \/ \E s \in SocketIds, ids \in SubscribeRequests : UnsubscribeDevices(s, ids)
  \/ \E s \in SocketIds : Drain(s)

SpecSubscription == Init /\ [][NextSubscription]_vars

\* The payloads the broadcast methods build, for every call drawn from Calls.
InitPayload ==
  /\ WsInit
  /\ SubscriptionInit
  /\ call \in Calls
  /\ message = NoMessage
  /\ AuthInit
  /\ CacheInit
  /\ JobInit
  /\ DeviceInit
  /\ SessionInit
  /\ ExportInit

NextPayload ==
  \/ BuildHeartbeatPayload
  \/ BuildStatusChangePayload
  \/ BuildErrorPayload

SpecPayload == InitPayload /\ [][NextPayload]_vars

\* The authentication endpoints.
NextAuth ==
  \/ Tick
  \/ \E u \in AuthUsers : Login(u)
  \/ \E rt \in RefreshTokensHeld \cup {ForgedRefreshToken} : RefreshToken(rt)
  \/ \E token \in AccessTokensHeld, rt \in RefreshTokensHeld \cup {NoRefreshToken} :
       Logout(token, rt)
  \/ \E token \in AccessTokensHeld : LogoutAll(token)

SpecAuth == Init /\ [][NextAuth]_vars

\* Reads of single devices through the cache.
NextDeviceRead ==
  \/ \E u \in ActiveUsers, d \in DOMAIN DeviceDocs, usable \in BOOLEAN :
       GetDeviceRequest(u, d, usable)
  \/ \E d \in DOMAIN DeviceDocs : InvalidateDeviceCache(d)

SpecDeviceRead == Init /\ [][NextDeviceRead]_vars

\* The hourly cleanup job next to the heartbeats of the devices.
NextCleanup ==
  \/ TickHour
  \/ \E d \in DeviceRowIds, status \in {"", "active"} : RecordHeartbeat(d, status)
  \/ \E hours \in TimeoutHours : SelectInactiveDevices(hours)
  \/ UpdateInactiveDevices

SpecCleanup == Init /\ [][NextCleanup]_vars

\* The device endpoints: what they store, log, answer and broadcast.
NextDevice ==
  \/ TickClock
  \/ \E u \in DeviceUsers, id \in RequestIds, body \in HeartbeatBodies :
       DeviceHeartbeat(u, id, body)
  \/ \E u \in DeviceUsers, id \in RequestIds, status \in Statuses,
        old \in Statuses \cup {""} : UpdateDeviceStatus(u, id, status, old)
  \/ \E u \in DeviceUsers, id \in CreatableIds : CreateDevice(u, id)
  \/ \E u \in DeviceUsers, id \in RequestIds : UpdateDevice(u, id)
  \/ \E u \in DeviceUsers, id \in RequestIds : DeleteDevice(u, id)
  \/ \E u \in DeviceUsers, ids \in SUBSET RequestIds \ {{}} : BulkUpdateDevices(u, ids)

SpecDevice == Init /\ [][NextDevice]_vars

(* ================================================================ claims *)
Org(s) == userSockets[s].organization

Heartbeat(d) ==
  [name |-> "device:heartbeat", deviceId |-> d, organization |-> DeviceDb[d], userId |-> ""]

\* C1: an event published for organization O is never delivered to a
\* connection whose identity has another organization, whatever device
\* subscriptions the connection holds: a connection that holds a copy of the
\* latest broadcast is in that broadcast's organization.
C1_OrganizationIsolation ==
  \A s \in DOMAIN userSockets :
    (published > 0 /\ Copies(outbound, s, published) > 0)
      => Org(s) = lastBroadcast.organization

\* C2: every connection registered with organization O when a device event
\* is published for O receives it, subscribed or not; a connection without
\* device subscriptions gets exactly one message when it is in O and none
\* when it is not.
C2_CompleteFanOut ==
  [][(published' = published + 1 /\ lastBroadcast'.deviceId # "") =>
       \A s \in DOMAIN userSockets :
         LET mine == Org(s) = lastBroadcast'.organization
             n    == Copies(outbound', s, published')
         IN /\ mine => n >= 1
            /\ rooms[s] = ConnectionRooms(userSockets[s].userId)
                 => n = (IF mine THEN 1 ELSE 0)]_vars

\* A (TechCorp) and B (InnovateLab) are connected, nobody has subscribed, and
\* the heartbeat of SENSOR_001 has just been broadcast: one message for A,
\* none for B.
C2_Witness ==
  /\ DOMAIN userSockets = {"s1", "s2"}
  /\ Org("s1") = "TechCorp"
  /\ Org("s2") = "InnovateLab"
  /\ nsub = 0
  /\ lastBroadcast = Heartbeat("SENSOR_001")
  /\ Copies(outbound, "s1", published) = 1
  /\ Copies(outbound, "s2", published) = 0

\* C3: a connection that is in organization O and has subscribed to device X
\* receives an event published for X in O once, not once per matching room.
C3_DeduplicatedDelivery ==
  \A s \in DOMAIN userSockets :
    (/\ published > 0
     /\ lastBroadcast.deviceId # ""
     /\ Org(s) = lastBroadcast.organization
     /\ DeviceRoom(lastBroadcast.deviceId, Org(s)) \in rooms[s])
      => Copies(outbound, s, published) <= 1

\* C4: a connection of organization P that has asked for device D of another
\* organization O never receives an event published for D in O.
C4_BoundaryDominatesSubscription ==
  \A s \in DOMAIN userSockets, d \in DOMAIN DeviceDb :
    (/\ DeviceDb[d] # Org(s)
     /\ DeviceRoom(d, Org(s)) \in rooms[s]
     /\ published > 0
     /\ lastBroadcast.deviceId = d
     /\ lastBroadcast.organization = DeviceDb[d])
      => Copies(outbound, s, published) = 0

\* C5: a connection is in its organization's connection set (the userSockets
\* entries getOrganizationUsersCount counts, and the organization room) from
\* handleConnection until handleDisconnection, and not afterwards.
C5_RegistryMembership ==
  /\ \A s \in SocketIds :
       /\ conn[s] = "connected" =>
            /\ s \in DOMAIN userSockets
            /\ Org(s) = SocketOrganization(s)
            /\ OrgRoom(SocketOrganization(s)) \in rooms[s]
       /\ conn[s] # "connected" =>
            /\ s \notin DOMAIN userSockets
            /\ \A o \in Organizations : OrgRoom(o) \notin rooms[s]
  /\ \A o \in Organizations :
       getOrganizationUsersCount(userSockets, o) =
         Cardinality({s \in SocketIds : conn[s] = "connected" /\ SocketOrganization(s) = o})

\* one connection has been torn down and another is still counted for TechCorp
C5_Witness ==
  /\ conn["s1"] = "closed"
  /\ conn["s2"] = "connected"
  /\ SocketOrganization("s2") = "TechCorp"
  /\ getOrganizationUsersCount(userSockets, "TechCorp") = 1

\* C6: a second handleDisconnection for the same socket id, or one for a
\* socket id that is not in the maps, leaves connectedUsers and userSockets
\* as a single call leaves them, and no call touches the entries of another
\* connection, of the same user or not.
C6_UnregisterIdempotent ==
  \A s \in SocketIds :
    LET once  == handleDisconnection(connectedUsers, userSockets, s)
        twice == handleDisconnection(once.connectedUsers, once.userSockets, s)
    IN /\ twice = once
       /\ s \notin DOMAIN userSockets =>
            once = [connectedUsers |-> connectedUsers, userSockets |-> userSockets]
       /\ s \notin DOMAIN once.userSockets
       /\ \A x \in DOMAIN userSockets \ {s} :
            /\ x \in DOMAIN once.userSockets
            /\ once.userSockets[x] = userSockets[x]
       /\ \A u \in DOMAIN connectedUsers :
            LET rest == SelectSeq(connectedUsers[u], LAMBDA x : x # s)
            IN IF rest = << >> THEN u \notin DOMAIN once.connectedUsers
               ELSE u \in DOMAIN once.connectedUsers /\ once.connectedUsers[u] = rest
       /\ DOMAIN once.connectedUsers \subseteq DOMAIN connectedUsers

\* s1 of alice has been torn down while her other connection s2 is still
\* registered
C6_Witness ==
  /\ conn["s1"] = "closed"
  /\ DOMAIN userSockets = {"s2"}
  /\ DOMAIN connectedUsers = {"alice"}
  /\ connectedUsers["alice"] = <<"s2">>

\* the device subscription entries of a socket: the rooms it is in other
\* than organization and user rooms
DeviceSubscriptions(s) ==
  rooms[s] \ ({OrgRoom(o) : o \in Organizations} \cup {UserRoom(u) : u \in DOMAIN UserDb})

AuthenticatedHandshake(token) ==
  /\ token.raw # ""
  /\ token.raw \notin BlacklistedTokens
  /\ token.verifies
  /\ token.userId \in DOMAIN UserDb
  /\ UserDb[token.userId].isActive

\* C8: every entry of userSockets and connectedUsers and every member of an
\* organization room is a live connection whose handshake presented a token
\* that is present, not blacklisted, verified and names an active user.
C8_OnlyAuthenticatedRegistered ==
  /\ \A s \in DOMAIN userSockets :
       /\ conn[s] = "connected"
       /\ AuthenticatedHandshake(socketToken[s])
       /\ userSockets[s].userId = socketToken[s].userId
  /\ \A u \in DOMAIN connectedUsers :
       \A i \in 1..Len(connectedUsers[u]) :
         /\ conn[connectedUsers[u][i]] = "connected"
         /\ AuthenticatedHandshake(socketToken[connectedUsers[u][i]])
         /\ socketToken[connectedUsers[u][i]].userId = u
  /\ \A s \in SocketIds, o \in Organizations :
       OrgRoom(o) \in rooms[s] =>
         conn[s] = "connected" /\ AuthenticatedHandshake(socketToken[s])

\* two connections are registered, both behind a good token
C8_Witness ==
  /\ DOMAIN userSockets = {"s1", "s2"}
  /\ socketToken["s1"].raw = "tok_alice"
  /\ socketToken["s2"].raw = "tok_carol"
  /\ "s2" \in InRoom(rooms, OrgRoom("North_InnovateLab"))

\* C9: the number of undelivered messages queued for a connection never
\* exceeds a fixed capacity (a publish that finds the queue full disconnects
\* the connection instead).
C9_BoundedOutboundBuffer ==
  \A s \in SocketIds : Len(outbound[s]) <= QueueCapacity

\* C10: while a connection of the organization sits on a backlog it never
\* drains, a broadcast still completes, reaches every registered connection of
\* the organization without losing what was queued before, and changes no
\* connection's registration.
C10_SlowConsumerIsolation ==
  [][(/\ published' = published + 1
      /\ \E slow \in Registered(userSockets, lastBroadcast'.organization) :
           Len(outbound[slow]) >= QueueCapacity) =>
       /\ \A s \in Registered(userSockets, lastBroadcast'.organization) :
            /\ Copies(outbound', s, published') >= 1
            /\ SubSeq(outbound'[s], 1, Len(outbound[s])) = outbound[s]
       /\ UNCHANGED <<connectedUsers, userSockets, conn, rooms>>]_vars

\* s1 has drained nothing since it connected and holds both broadcasts; s2,
\* in the same organization, has drained and holds the second one
C10_Witness ==
  /\ published = 2
  /\ DOMAIN userSockets = {"s1", "s2"}
  /\ Org("s1") = Org("s2")
  /\ Len(outbound["s1"]) > QueueCapacity
  /\ outbound["s1"][1] = Reply
  /\ Copies(outbound, "s1", 1) >= 1
  /\ Copies(outbound, "s1", 2) >= 1
  /\ outbound["s2"] = <<2>>

\* C11: an event published without an organization (broadcastSystemNotification
\* with no target) or for an organization that has no registered connection
\* (broadcastToOrganization) is delivered to no connection: the call leaves
\* every outbound buffer as it was.
C11_MissingOrganizationDropped ==
  [][(/\ published' = published + 1
      /\ lastBroadcast'.userId = ""
      /\ lastBroadcast'.deviceId = ""
      /\ \/ lastBroadcast'.organization = ""
         \/ Registered(userSockets, lastBroadcast'.organization) = {}) =>
       outbound' = outbound]_vars

\* the user a broadcastToUser call names owns exactly these connections
SocketsOfUser(userId) ==
  IF userId \in DOMAIN connectedUsers
  THEN {connectedUsers[userId][i] : i \in 1..Len(connectedUsers[userId])}
  ELSE {}

\* C15: broadcastToUser(u, ...) puts the event, once, on every live connection
\* registered for u and on no connection of another user, whatever the
\* organizations and device subscriptions of the connections.
C15_DirectUserNotification ==
  [][(published' = published + 1 /\ lastBroadcast'.userId # "") =>
       \A s \in SocketIds :
         IF s \in DOMAIN userSockets /\ userSockets[s].userId = lastBroadcast'.userId
         THEN /\ s \in SocketsOfUser(lastBroadcast'.userId)
              /\ outbound'[s] = Append(outbound[s], published')
         ELSE /\ s \notin SocketsOfUser(lastBroadcast'.userId)
              /\ outbound'[s] = outbound[s]]_vars

\* alice is connected twice, one of her connections holds a device
\* subscription, and a notification addressed to her is on both
C15_Witness ==
  /\ DOMAIN userSockets = {"s1", "s2"}
  /\ userSockets["s1"].userId = "alice"
  /\ userSockets["s2"].userId = "alice"
  /\ DeviceSubscriptions("s1") # {}
  /\ DeviceSubscriptions("s2") = {}
  /\ lastBroadcast.userId = "alice"
  /\ Copies(outbound, "s1", published) = 1
  /\ Copies(outbound, "s2", published) = 1

\* C12: per-connection FIFO.  Broadcast calls are numbered in call order; a
\* step either hands the whole buffer of a connection to its transport (or
\* drops it at close), or keeps the buffer as it was and adds messages at its
\* end, and a broadcast added is the latest call: what a connection receives
\* of two broadcasts it receives in call order.
C12_PerConnectionFIFO ==
  [][\A s \in SocketIds :
       \/ outbound'[s] = << >>
       \/ /\ Len(outbound'[s]) >= Len(outbound[s])
          /\ SubSeq(outbound'[s], 1, Len(outbound[s])) = outbound[s]
          /\ \A i \in (Len(outbound[s]) + 1)..Len(outbound'[s]) :
               \/ outbound'[s][i] = Reply
               \/ /\ outbound'[s][i] = published'
                  /\ published' = published + 1
                  /\ \A j \in 1..Len(outbound[s]) : outbound[s][j] < published']_vars

\* s1 has subscribed to nothing and holds, behind its 'connected' reply, the
\* two broadcasts made for its organization, the first one first
C12_Witness ==
  /\ nsub = 0
  /\ published = 2
  /\ "s1" \in DOMAIN userSockets
  /\ lastBroadcast.organization = Org("s1")
  /\ outbound["s1"] = <<Reply, 1, 2>>

\* C13: handleDisconnection(C) and a broadcast are safe in either order.  A
\* broadcast made after a teardown completes, reaches every registered
\* connection of the organization, gives nothing to a connection that is gone
\* and registers nothing; the teardown of a connection that holds undelivered
\* broadcasts takes it out of userSockets, connectedUsers and every room and
\* leaves the buffers, rooms and registrations of all other connections alone.
C13_TeardownSafeWithPublish ==
  [][/\ (published' = published + 1 /\ \E c \in SocketIds : conn[c] = "closed") =>
          /\ \A s \in Registered(userSockets, lastBroadcast'.organization) :
               Copies(outbound', s, published') >= 1
          /\ \A c \in SocketIds :
               conn[c] = "closed" =>
                 /\ outbound'[c] = << >>
                 /\ rooms'[c] = {}
                 /\ c \notin DOMAIN userSockets'
          /\ UNCHANGED <<connectedUsers, userSockets, conn, rooms>>
     /\ \A c \in SocketIds :
          (/\ conn[c] = "connected"
           /\ conn'[c] = "closed"
           /\ \E i \in 1..Len(outbound[c]) : outbound[c][i] # Reply) =>
             /\ c \notin DOMAIN userSockets'
             /\ \A u \in DOMAIN connectedUsers' :
                  \A i \in 1..Len(connectedUsers'[u]) : connectedUsers'[u][i] # c
             /\ rooms'[c] = {}
             /\ \A s \in SocketIds \ {c} :
                  /\ outbound'[s] = outbound[s]
                  /\ rooms'[s] = rooms[s]
                  /\ conn'[s] = conn[s]
                  /\ s \in DOMAIN userSockets =>
                       /\ s \in DOMAIN userSockets'
                       /\ userSockets'[s] = userSockets[s]
                       /\ s \in SocketsOfUser(userSockets[s].userId)']_vars

\* s1 is gone and in no index; s2, of the same organization as the latest
\* broadcast, holds both broadcasts
C13_Witness ==
  /\ conn["s1"] = "closed"
  /\ "s1" \notin DOMAIN userSockets
  /\ "s2" \in DOMAIN userSockets
  /\ published = 2
  /\ lastBroadcast.organization = Org("s2")
  /\ Copies(outbound, "s2", 1) >= 1
  /\ Copies(outbound, "s2", 2) >= 1

\* C14: an unsubscribe request of connection C for device D takes C out of
\* the device index of D, and changes neither C's organization and user rooms
\* nor the rooms of any other connection.
C14_UnsubscribeRemovesEntry ==
  [][\A s \in SocketIds, ids \in SubscribeRequests :
       UnsubscribeDevices(s, ids) =>
         /\ \A d \in ids : DeviceRoom(d, SocketOrganization(s)) \notin rooms'[s]
         /\ rooms'[s] \ DeviceSubscriptions(s) = rooms[s] \ DeviceSubscriptions(s)
         /\ \A x \in SocketIds \ {s} : rooms'[x] = rooms[x]]_vars

\* C16: every field of the data given to a broadcast call is in the message
\* delivered, with its value, and the event kind, the device id and the
\* timestamp of the message are those of the event and of the server, whatever
\* keys the data has.
C16_PayloadRoundTrip ==
  message # NoMessage =>
    /\ \A k \in DOMAIN call.data :
         k \in DOMAIN message.payload /\ message.payload[k] = call.data[k]
    /\ message.event = call.kind
    /\ message.payload.deviceId = call.deviceId
    /\ message.payload.timestamp = ServerTime

\* C17: a refresh token a refreshToken call succeeded with is rejected with
\* 'Invalid refresh token' ever after, the token that call issued is stored,
\* and a token the server never stored is rejected.
C17_RefreshTokenRotation ==
  /\ \A rt \in rotated :
       refreshTokenResult(refreshTokens, rt) = "Invalid refresh token"
  /\ refreshTokenResult(refreshTokens, ForgedRefreshToken) # "ok"

\* C18: an access token a successful logout was made with, or a logout-all,
\* is rejected by authMiddleware with 'Token has been revoked' ever after.
C18_LogoutRevokesAccessToken ==
  \A token \in loggedOut \cup loggedOutAll :
    authMiddleware(blacklist, token) = "Token has been revoked"

\* C19: whoever is answered 200 on GET /devices/:id is an admin, or is of
\* the device's organization and, with role 'user', its owner; cached answers
\* included.
C19_DeviceReadAccessControl ==
  response.status = "200" =>
    LET user == UserDb[response.userId]
    IN /\ user.role # "admin" => response.device.organization = user.organization
       /\ user.role = "user" => response.device.owner = response.userId

\* C20: a run of deactivateInactiveDevices(h) ends with status 'inactive' on
\* exactly the devices that are active and have last_active_at NULL or older
\* than h hours, every other row as it was, and returns the count and the ids
\* of those devices; a run that finds none returns count 0 and no ids and
\* changes no row.
C20_DeactivatesExactlyInactive ==
  [][/\ (job.pc = "update" /\ job'.pc = "idle") =>
          LET due == getInactiveDevices(deviceRows, hour, job.hours)
          IN /\ \A d \in DeviceRowIds :
                  deviceRows'[d] = IF d \in due
                                   THEN [deviceRows[d] EXCEPT !.status = "inactive"]
                                   ELSE deviceRows[d]
             /\ jobResult' = [count |-> Cardinality(due), devices |-> due]
     /\ \A hours \in TimeoutHours :
          (job.pc = "idle" /\ getInactiveDevices(deviceRows, hour, hours) = {}
             /\ SelectInactiveDevices(hours)) =>
            /\ jobResult' = NoJobResult
            /\ deviceRows' = deviceRows]_vars

\* C21: a heartbeat for an active device whose status is 'offline' sets its
\* status to 'online' and sets connectivity.lastSeen to the time of the
\* request; for an active device in another status the status stays; for an
\* id that is unknown or soft-deleted the answer is 404 and no device changes.
C21_HeartbeatContract ==
  [][\A id \in RequestIds :
       (nreq' = nreq + 1 /\ reply'.op = "heartbeat" /\ reply'.id = id) =>
         IF id \in DOMAIN devices /\ devices[id].isActive
         THEN /\ devices'[id].status =
                   IF devices[id].status = "offline" THEN "online" ELSE devices[id].status
              /\ devices'[id].lastSeen = <<clock>>
         ELSE /\ reply'.code = "404"
              /\ devices' = devices]_vars

\* C22: index consistency.  A socket id is in the list of user u exactly when
\* its userSockets entry names u, no list holds a socket id twice, no list is
\* empty, and a socket is in its organization's room exactly when it has a
\* userSockets entry.
C22_IndexConsistency ==
  /\ \A u \in DOMAIN connectedUsers :
       /\ connectedUsers[u] # << >>
       /\ \A i, j \in 1..Len(connectedUsers[u]) :
            i # j => connectedUsers[u][i] # connectedUsers[u][j]
       /\ \A i \in 1..Len(connectedUsers[u]) :
            /\ connectedUsers[u][i] \in DOMAIN userSockets
            /\ userSockets[connectedUsers[u][i]].userId = u
  /\ \A s \in DOMAIN userSockets :
       /\ s \in SocketsOfUser(userSockets[s].userId)
       /\ OrgRoom(userSockets[s].organization) \in rooms[s]
  /\ \A s \in SocketIds \ DOMAIN userSockets :
       \A o \in Organizations : OrgRoom(o) \notin rooms[s]

\* the first connection is gone and in no index; carol's connection s2 is in
\* every index
C22_Witness ==
  /\ conn["s1"] = "closed"
  /\ DOMAIN userSockets = {"s2"}
  /\ userSockets["s2"].userId = "carol"
  /\ connectedUsers = [u \in {"carol"} |-> <<"s2">>]
  /\ OrgRoom("North_InnovateLab") \in rooms["s2"]

\* C25: disconnectUser(u) disconnects every connection of u: when the call
\* returns every socket that was listed for u is closed and in no index, and
\* isUserConnected(u) is false.
C25_DisconnectUserDisconnectsAll ==
  [][\A u \in DOMAIN UserDb :
       DisconnectUser(u) =>
         /\ \A s \in SocketsOfUser(u) :
              conn'[s] = "closed" /\ s \notin DOMAIN userSockets'
         /\ u \notin DOMAIN connectedUsers']_vars

\* C23: the status_change event of a status update carries as oldStatus the
\* status the device had stored before the update and as newStatus the status
\* the update stored, the pair the service wrote to the device log, whatever
\* oldStatus the request body holds.
C23_StatusChangeCarriesStoredPair ==
  [][\A id \in RequestIds :
       (/\ nreq' = nreq + 1
        /\ reply'.op = "status"
        /\ reply'.code = "200"
        /\ reply'.id = id) =>
         /\ emitted'.name = "device:status_change"
         /\ emitted'.payload.oldStatus = devices[id].status
         /\ emitted'.payload.newStatus = devices'[id].status
         /\ deviceLog'.data.oldStatus = emitted'.payload.oldStatus
         /\ deviceLog'.data.newStatus = emitted'.payload.newStatus]_vars

\* C26: a device:created, device:updated or device:deleted event goes to the
\* organization that owns the device it is about, a devices:bulk_updated event
\* to the organization that owns the devices updated, and it names only
\* devices whose update succeeded; also when the request comes from an admin
\* of another organization.
C26_EventsReachOwningOrganization ==
  /\ emitted.name \in {"device:created", "device:updated", "device:deleted"} =>
       emitted.organization = devices[emitted.payload.deviceId].organization
  /\ emitted.name = "devices:bulk_updated" =>
       /\ emitted.payload.deviceIds \subseteq reply.ok
       /\ \A d \in reply.ok : devices[d].organization = emitted.organization

\* C28: the status of a device:heartbeat event is the status stored for the
\* device once the heartbeat is applied.
C28_HeartbeatEventStatus ==
  emitted.name = "device:heartbeat" =>
    emitted.payload.status = devices[emitted.payload.deviceId].status

\* the connections whose credential would no longer pass the handshake
Stale(s) ==
  \/ socketToken[s].raw \in DOMAIN revoked
  \/ socketToken[s].userId \in deactivated

\* C24: the credential is validated at the handshake only.  Blacklisting a
\* token or deactivating a user changes nothing of the registry; a connection
\* leaves the registry only by being closed (its own disconnect, or
\* disconnectUser); and a broadcast to an organization reaches every
\* registered connection of it, those with a blacklisted token or a
\* deactivated user included.
C24_ValidatedOnceAtHandshake ==
  [][/\ (revoked' # revoked \/ deactivated' # deactivated) => UNCHANGED wsVars
     /\ \A s \in DOMAIN userSockets :
          s \notin DOMAIN userSockets' =>
            \/ Disconnect(s)
            \/ \E u \in DOMAIN UserDb : DisconnectUser(u)
     /\ published' = published + 1 =>
          \A s \in Registered(userSockets, lastBroadcast'.organization) :
            outbound'[s] = Append(outbound[s], published')]_vars

\* s1 was registered with tok_alice, the token was blacklisted before the
\* latest broadcast, and s1 holds that broadcast; s2 belongs to carol, who has
\* been deactivated, and is still registered
C24_Witness ==
  /\ DOMAIN userSockets = {"s1", "s2"}
  /\ socketToken["s1"].raw = "tok_alice"
  /\ "tok_alice" \in DOMAIN revoked
  /\ revoked["tok_alice"] < published
  /\ lastBroadcast.organization = "TechCorp"
  /\ Copies(outbound, "s1", published) = 1
  /\ userSockets["s2"].userId = "carol"
  /\ "carol" \in deactivated
  /\ Stale("s2")

\* C27: a device:status message of connection c puts one device:status_update
\* on every registered connection of c's organization (c included) and on no
\* other connection, whatever deviceId and status it names, and changes
\* neither the maps, the rooms and the connections nor the stored devices.
C27_ClientStatusStaysInOrganization ==
  [][\A c \in SocketIds, data \in StatusMessages :
       (ClientDeviceStatus(c, data) /\ published' = published + 1) =>
         /\ \A s \in SocketIds :
              outbound'[s] =
                IF s \in DOMAIN userSockets /\ Org(s) = Org(c)
                THEN Append(outbound[s], published')
                ELSE outbound[s]
         /\ UNCHANGED <<connectedUsers, userSockets, conn, rooms, devices>>]_vars

\* alice (TechCorp) has sent a device:status naming CAM_7, a device of
\* carol's organization, whose connection holds a subscription; alice holds
\* the update and carol does not
C27_Witness ==
  /\ DOMAIN userSockets = {"s1", "s2"}
  /\ userSockets["s1"].userId = "alice"
  /\ userSockets["s2"].userId = "carol"
  /\ DeviceSubscriptions("s2") # {}
  /\ lastBroadcast = [name |-> "device:status_update", deviceId |-> "CAM_7",
                      organization |-> "TechCorp", userId |-> ""]
  /\ Copies(outbound, "s1", published) = 1
  /\ Copies(outbound, "s2", published) = 0

\* the connections that are live
Live == {s \in SocketIds : conn[s] = "connected"}

\* the sum of the values of a breakdown
RECURSIVE SumOver(_, _)
SumOver(f, keys) ==
  IF keys = {} THEN 0
  ELSE LET k == CHOOSE x \in keys : TRUE
       IN f[k] + SumOver(f, keys \ {k})

\* C30: after any sequence of connects and disconnects totalConnections is
\* the number of live connections and the sum of organizationBreakdown, every
\* organization is counted with its live connections, uniqueUsers is the
\* number of users that have a live connection, and isUserConnected(u) holds
\* exactly for those users.
C30_StatsAgreeWithRegistry ==
  LET stats == getConnectionStats(connectedUsers, userSockets)
  IN /\ stats.totalConnections = Cardinality(Live)
     /\ stats.totalConnections =
          SumOver(stats.organizationBreakdown, DOMAIN stats.organizationBreakdown)
     /\ \A o \in Organizations :
          Cardinality({s \in Live : SocketOrganization(s) = o}) =
            IF o \in DOMAIN stats.organizationBreakdown
            THEN stats.organizationBreakdown[o] ELSE 0
     /\ stats.uniqueUsers = Cardinality({socketUser[s] : s \in Live})
     /\ getConnectedUsersCount(connectedUsers) = stats.uniqueUsers
     /\ \A u \in DOMAIN UserDb :
          isUserConnected(connectedUsers, u) <=> \E s \in Live : socketUser[s] = u

\* alice had two connections and one of them is closed: one connection, one
\* user, and alice still counts as connected
C30_Witness ==
  /\ conn["s1"] = "closed"
  /\ conn["s2"] = "connected"
  /\ socketUser["s2"] = "alice"
  /\ getConnectionStats(connectedUsers, userSockets) =
       [totalConnections |-> 1, uniqueUsers |-> 1,
        organizationBreakdown |-> [o \in {"TechCorp"} |-> 1]]
  /\ isUserConnected(connectedUsers, "alice")

\* C29: the status of an export job is monotone.  A job is created 'pending';
\* its status changes only from pending to processing, from processing to
\* completed or failed, and from pending or processing to cancelled; a job
\* that is completed, failed or cancelled keeps its status whatever step comes
\* later; and a download is answered 200 only for a completed job of the user
\* who asks.
C29_ExportStatusMonotone ==
  [][/\ \A j \in JobIds :
          /\ (~exportJobs[j].exists /\ exportJobs'[j].exists) =>
               exportJobs'[j].status = "pending"
          /\ (exportJobs[j].exists /\ exportJobs'[j].status # exportJobs[j].status) =>
               \/ /\ exportJobs[j].status = "pending"
                  /\ exportJobs'[j].status = "processing"
               \/ /\ exportJobs[j].status = "processing"
                  /\ exportJobs'[j].status \in {"completed", "failed"}
               \/ /\ exportJobs[j].status \in {"pending", "processing"}
                  /\ exportJobs'[j].status = "cancelled"
          /\ exportJobs[j].status \in {"completed", "failed", "cancelled"} =>
               exportJobs'[j].status = exportJobs[j].status
     /\ (download' # download /\ download'.code = "200") =>
          /\ exportJobs[download'.jobId].status = "completed"
          /\ exportJobs[download'.jobId].userId = download'.userId]_vars

====
